---- MODULE Spec2Model ----
(***************************************************************************)
(* Model of the GIF pipeline of slumber: the threaded generator and the    *)
(* staleness check of mise-tasks/gifs.py, with the script parser shared    *)
(* with gifs.py.                                                           *)
(*                                                                         *)
(* Text is modelled as sequences of one-character strings, so that the     *)
(* regular expression, the formatting of the review document, the sorting  *)
(* of paths and the stripping of process output are computed, not assumed. *)
(***************************************************************************)
EXTENDS Integers, Sequences, FiniteSets, TLC

\* ------------------------------------------------------------------ bounds

\* Longest list of tape names given on the command line.
MaxTapes == 2
\* Number of names mkdtemp can draw a scratch directory name from.
NumDirs == 3
\* Number of commits in the repository's (linear) history.
MaxCommit == 2
\* Longest script (in lines) the parser is run on in SpecParse.
MaxLines == 3

\* ------------------------------------------------------------------- text

\* ord() of the characters the model uses (Python compares str by code point).
Ord(c) ==
    CASE c = "\n" -> 10
      [] c = " "  -> 32
      [] c = "!"  -> 33
      [] c = "\"" -> 34
      [] c = "#"  -> 35
      [] c = "("  -> 40
      [] c = ")"  -> 41
      [] c = "/"  -> 47
      [] c = "O"  -> 79
      [] c = "["  -> 91
      [] c = "]"  -> 93
      [] c = "g"  -> 103
      [] c = "o"  -> 111
      [] c = "p"  -> 112
      [] c = "s"  -> 115
      [] c = "t"  -> 116
      [] c = "u"  -> 117
      [] c = "z"  -> 122

\* str.__le__: lexicographic order on code points.
RECURSIVE StrLeq(_, _)
StrLeq(a, b) ==
    IF a = <<>> THEN TRUE
    ELSE IF b = <<>> THEN FALSE
    ELSE IF Ord(Head(a)) < Ord(Head(b)) THEN TRUE
    ELSE IF Ord(Head(a)) > Ord(Head(b)) THEN FALSE
    ELSE StrLeq(Tail(a), Tail(b))

\* Insertion of one string into a sorted list, after its equals (stable).
RECURSIVE Insert(_, _)
Insert(x, s) ==
    IF s = <<>> THEN <<x>>
    ELSE IF StrLeq(Head(s), x) THEN <<Head(s)>> \o Insert(x, Tail(s))
    ELSE <<x>> \o s

RECURSIVE InsertionSort(_)
InsertionSort(s) ==
    IF s = <<>> THEN <<>> ELSE Insert(s[Len(s)], InsertionSort(SubSeq(s, 1, Len(s) - 1)))

\* The list is handed on in the order the threads appended to it.
sortedUnsorted(s) == s

\* sorted(gifs): the list in ascending order.
sorted(s) == InsertionSort(s)

Whitespace == {" ", "\n"}

RECURSIVE LStrip(_)
LStrip(s) == IF s /= <<>> /\ Head(s) \in Whitespace THEN LStrip(Tail(s)) ELSE s

RECURSIVE RStrip(_)
RStrip(s) ==
    IF s /= <<>> /\ s[Len(s)] \in Whitespace THEN RStrip(SubSeq(s, 1, Len(s) - 1)) ELSE s

\* output.decode().strip()
decodeStrip(s) == LStrip(RStrip(s))

\* ----------------------------------------------------------------- scripts

TAPE_DIR == "tapes/"

\* r'^Output "' : the literal the expression starts with.
OutputPrefix == <<"O", "u", "t", "p", "u", "t", " ", "\"">>

\* `$` matches at the end of the line or before its final newline.
Chomp(line) ==
    IF line /= <<>> /\ line[Len(line)] = "\n" THEN SubSeq(line, 1, Len(line) - 1) ELSE line

\* OUTPUT_REGEX.match(line) is not None
RegexMatches(line) ==
    LET body == Chomp(line)
        n == Len(body)
        p == Len(OutputPrefix)
    IN  /\ n >= p + 1
        /\ SubSeq(body, 1, p) = OutputPrefix
        /\ body[n] = "\""
        /\ \A i \in 1..n : body[i] /= "\n"

\* The path ends at the first quote after the opening one.
RECURSIVE UpToQuote(_)
UpToQuote(s) ==
    IF s = <<>> \/ Head(s) = "\"" THEN <<>> ELSE <<Head(s)>> \o UpToQuote(Tail(s))

RegexPathToFirstQuote(line) ==
    UpToQuote(SubSeq(Chomp(line), Len(OutputPrefix) + 1, Len(Chomp(line))))

\* m.group("path"): `.*` is greedy, it runs up to the last quote of the line.
RegexPath(line) ==
    LET body == Chomp(line) IN SubSeq(body, Len(OutputPrefix) + 1, Len(body) - 1)

FileNotFoundError == "FileNotFoundError"
ValueError == "ValueError"
CalledProcessError == "CalledProcessError"
Outdated == "Exception"

\* The scan stops at the last matching line instead of the first.
RECURSIVE ScanLast(_)
ScanLast(lines) ==
    IF lines = <<>> THEN [ok |-> FALSE, err |-> ValueError]
    ELSE IF RegexMatches(lines[Len(lines)])
         THEN [ok |-> TRUE, path |-> RegexPath(lines[Len(lines)])]
         ELSE ScanLast(SubSeq(lines, 1, Len(lines) - 1))

\* The loop of get_gif_path over the lines of an open file.
RECURSIVE Scan(_)
Scan(lines) ==
    IF lines = <<>> THEN [ok |-> FALSE, err |-> ValueError]
    ELSE IF RegexMatches(Head(lines))
         THEN [ok |-> TRUE, path |-> RegexPath(Head(lines))]
         ELSE Scan(Tail(lines))

\* A line `Output "<p>"` and the other lines the model's scripts are made of.
OutputLine(p) == OutputPrefix \o p \o <<"\"", "\n">>
GetGif == <<"s", "/", "g">>
PostGif == <<"s", "/", "p">>
SetLine == <<"S", "e", "t", "\n">>

\* The tape directory: get.tape and post.tape declare an output, bad.tape
\* declares none, and there is no typo.tape.
TapeNames == {"get", "post", "bad", "typo"}

\* os.path.join(TAPE_DIR, f"{tape_name}.tape")
get_tape_path(tape_name) == <<TAPE_DIR, tape_name, ".tape">>

TapeFiles ==
    (get_tape_path("post") :> <<SetLine, OutputLine(PostGif)>>)
    @@ (get_tape_path("get") :> <<OutputLine(GetGif), SetLine>>)
    @@ (get_tape_path("bad") :> <<SetLine>>)

Exists(path) == path \in DOMAIN TapeFiles

\* get_gif_path: open() raises for a missing file, the scan raises when no
\* line matches.
get_gif_path(tape_path) ==
    IF ~Exists(tape_path) THEN [ok |-> FALSE, err |-> FileNotFoundError]
    ELSE Scan(TapeFiles[tape_path])

\* All orders of a set, as sequences: glob.glob returns the directory's
\* entries in no particular order.
Perms(S) ==
    {s \in [1..Cardinality(S) -> S] : \A i, j \in 1..Cardinality(S) : i /= j => s[i] /= s[j]}

get_tapes == Perms(DOMAIN TapeFiles)

\* f"{gif}\n\n![]({gif})\n\n"
Block(gif) == gif \o <<"\n", "\n", "!", "[", "]", "(">> \o gif \o <<")", "\n", "\n">>

RECURSIVE Blocks(_)
Blocks(gs) == IF gs = <<>> THEN <<>> ELSE <<Block(Head(gs))>> \o Blocks(Tail(gs))


\* -------------------------------------------------------------- repository

GifPaths == {GetGif, PostGif}

ShaDigit == <<"a", "b", "c", "d", "e", "f">>

\* The id of the c-th commit of the history, as git prints it.
Sha(c) == <<ShaDigit[c]>>

\* git rev-parse HEAD: the id and a newline; it exits 128 in a repository
\* without a commit (h = 0).
GitRevParseHead(h) ==
    IF h = 0 THEN [rc |-> 128, out |-> <<>>] ELSE [rc |-> 0, out |-> Sha(h) \o <<"\n">>]

\* git log -n 1 --pretty=format:%H -- <path>: the id without a newline, and
\* nothing at all for a path no commit touched (last[path] = 0).
GitLogLast(last, path) ==
    IF path \in DOMAIN last /\ last[path] /= 0
    THEN [rc |-> 0, out |-> Sha(last[path])]
    ELSE [rc |-> 0, out |-> <<>>]

\* ------------------------------------------------------------------ state

VARIABLES
    check_flag,     \* args.check
    names,          \* args.tapes
    pc,             \* where main / generate_all / check_all stands
    result,         \* "running", "ok", or the exception the run ended with
    tapes,          \* the local list of tape paths
    tape,           \* the loop variable of generate_all, shared with do_it
    threads,        \* per launched thread: its position
    ttape,          \* per launched thread: tape_path of its generate() call
    tdir,           \* per launched thread: temp_dir
    trc,            \* per launched thread: the recorder's exit status
    joined,         \* number of threads joined
    dirs,           \* scratch directories existing on disk
    gifs,           \* the shared list the threads append to
    doc,            \* content of gifs.md, one entry per write() call
    invocations,    \* history: the recorder invocations made
    head,           \* repository: number of the HEAD commit, 0 if none
    lastCommit,     \* repository: per artifact path the last commit touching it
    latest_commit,  \* check_all's local
    failed,         \* check_all's local list
    verdicts,       \* history: the verdicts check_all printed
    ci,             \* check_all's loop index
    head_read,      \* history: number of the commit the HEAD query reported
    script,         \* the lines of the script get_gif_path scans
    parsed,         \* what the scan of `script` ended with
    environ,        \* os.environ of the process
    rev_parse_calls, \* history: number of HEAD queries made
    data_dir,       \* gifs.py: whether data/ exists
    seq_i,          \* gifs.py: index of generate_all's loop
    seq_running,    \* gifs.py: number of recorder processes running
    seq_log,        \* gifs.py, history: the recorder invocations made
    launcher,       \* x.py, tui.py: the launcher that runs
    opt_log,        \* x.py, tui.py: --log as given, or not given
    opt_tracing,    \* x.py, tui.py: --tracing
    child_env,      \* x.py, tui.py: env= of subprocess.run
    exit_code       \* x.py, tui.py: the status the launcher exits with

vars ==
    <<check_flag, names, pc, result, tapes, tape, threads, ttape, tdir, trc, joined,
      dirs, gifs, doc, invocations, head, lastCommit, latest_commit, failed, verdicts, ci,
      head_read, script, parsed, environ, rev_parse_calls,
      data_dir, seq_i, seq_running, seq_log,
      launcher, opt_log, opt_tracing, child_env, exit_code>>

genVars == <<tape, threads, ttape, tdir, trc, joined, dirs, gifs, invocations>>
chkVars == <<latest_commit, failed, verdicts, ci, head_read, rev_parse_calls>>
repoVars == <<head, lastCommit>>
seqVars == <<data_dir, seq_i, seq_running, seq_log>>
launchVars == <<launcher, opt_log, opt_tracing, child_env, exit_code>>
argVars == <<check_flag, names, script, parsed, environ, seqVars, launchVars>>

\* Paths, as values of environment variables: a directory and a name in it.
DirPath(d) == <<"/tmp/tmp", d>>
HomeDb == <<"/home/db", 0>>
BinPath == <<"/usr/bin", 0>>

\* The environments the process may be started with: SLUMBER_DB is set by the
\* user or is not set.
Environs ==
    {[k \in {"PATH"} |-> BinPath],
     [k \in {"PATH", "SLUMBER_DB"} |-> IF k = "PATH" THEN BinPath ELSE HomeDb]}

\* os.environ.update(env)
EnvironUpdated(env, extra) == extra @@ env

\* run() builds a new dict and leaves os.environ as it is.
EnvironAfterRun(env, extra) == env

\* {**os.environ, **env}: the entries of env win.
ChildEnv(env, extra) == extra @@ env

NotParsed == [ok |-> FALSE, err |-> "not parsed"]
NoTape == <<>>
NoDir == 0
NoRc == -1
DirNames == 1..NumDirs

\* Lists of at most n elements of S.
SeqUpTo(S, n) == UNION {[1..k -> S] : k \in 0..n}

\* What gifs.md may hold from an earlier run.
StaleGif == <<"s", "/", "z">>
PriorDoc == <<Block(StaleGif)>>

NotGiven == "not given"
NoEnv == <<>>
NoExit == -1

\* No launcher is running.
LaunchIdle ==
    /\ launcher = "none"
    /\ opt_log = NotGiven
    /\ opt_tracing = FALSE
    /\ child_env = NoEnv
    /\ exit_code = NoExit

\* gifs.py is not running.
SeqIdle == data_dir = FALSE /\ seq_i = 1 /\ seq_running = 0 /\ seq_log = <<>>

\* Repository states: every artifact was last touched by a commit of the
\* history, or by none. generate_all makes no repository query, so its runs
\* are explored from the empty repository only.
Init ==
    /\ check_flag \in BOOLEAN
    /\ names \in SeqUpTo(TapeNames, MaxTapes)
    /\ pc = "main"
    /\ result = "running"
    /\ tapes = <<>>
    /\ tape = NoTape
    /\ threads = <<>>
    /\ ttape = <<>>
    /\ tdir = <<>>
    /\ trc = <<>>
    /\ joined = 0
    /\ dirs = {}
    /\ gifs = <<>>
    /\ doc = PriorDoc
    /\ invocations = {}
    /\ head \in IF check_flag THEN 0..MaxCommit ELSE {0}
    /\ lastCommit \in [GifPaths -> 0..head]
    /\ latest_commit = <<>>
    /\ failed = <<>>
    /\ verdicts = <<>>
    /\ ci = 1
    /\ head_read = 0
    /\ script = <<>>
    /\ parsed = NotParsed
    /\ environ \in Environs
    /\ rev_parse_calls = 0
    /\ SeqIdle
    /\ LaunchIdle

\* ------------------------------------------------------------------- main

\* Either mode generates.
DispatchGenerate(flag) == "generate_all"

\* if args.check: check_all(tapes) else: generate_all(tapes)
Dispatch(flag) == IF flag THEN "check_all" ELSE "generate_all"

\* main(): the names become paths and the mode is chosen.
Main ==
    /\ pc = "main"
    /\ tapes' = [i \in 1..Len(names) |-> get_tape_path(names[i])]
    /\ pc' = Dispatch(check_flag)
    /\ UNCHANGED <<argVars, result, genVars, doc, repoVars, chkVars>>

\* ----------------------------------------------------------- generate_all

\* generate_all up to the loop: the default tape list and `cargo build`,
\* whose failure ends the run.
GenerateAllStart ==
    /\ pc = "generate_all"
    /\ \E all \in get_tapes, build_rc \in {0, 101} :
        /\ tapes' = IF tapes = <<>> THEN all ELSE tapes
        /\ IF build_rc = 0
           THEN pc' = "launch" /\ result' = result
           ELSE pc' = "done" /\ result' = CalledProcessError
    /\ UNCHANGED <<argVars, genVars, doc, repoVars, chkVars>>

\* One iteration of the launching loop: `tape` is rebound and a thread running
\* do_it is started.
Launch ==
    /\ pc = "launch"
    /\ Len(threads) < Len(tapes)
    /\ tape' = tapes[Len(threads) + 1]
    /\ threads' = Append(threads, "started")
    /\ ttape' = Append(ttape, NoTape)
    /\ tdir' = Append(tdir, NoDir)
    /\ trc' = Append(trc, NoRc)
    /\ UNCHANGED <<argVars, pc, result, tapes, joined, dirs, gifs, doc, invocations,
                   repoVars, chkVars>>

\* The launching loop is over.
LaunchDone ==
    /\ pc = "launch"
    /\ Len(threads) = Len(tapes)
    /\ pc' = "join"
    /\ UNCHANGED <<argVars, result, tapes, genVars, doc, repoVars, chkVars>>

\* Only the first thread is waited for.
JoinFirst(ths) == ths = <<>> \/ ths[1] = "dead"

\* The join loop returns when every thread of the list has ended.
JoinReturns(ths) == \A t \in 1..Len(ths) : ths[t] = "dead"

\* for thread in threads: thread.join(). Each join returns once its thread
\* has ended, however it ended; the loop is over when all have.
Join ==
    /\ pc = "join"
    /\ JoinReturns(threads)
    /\ joined' = Len(threads)
    /\ pc' = "write"
    /\ UNCHANGED <<argVars, result, tapes, tape, threads, ttape, tdir, trc, dirs, gifs,
                   doc, invocations, repoVars, chkVars>>

\* open(GIF_MD_FILE, "w") truncates the file; one write() per sorted gif.
WriteDoc ==
    /\ pc = "write"
    /\ doc' = Blocks(sorted(gifs))
    /\ pc' = "done"
    /\ result' = "ok"
    /\ UNCHANGED <<argVars, tapes, genVars, repoVars, chkVars>>

\* ------------------------------------------------------------ the threads

\* do_it reads the variable `tape` of generate_all when it runs, not when it
\* was defined.
ClosureTape(t, cell) == cell

\* Any name is handed out, taken or not.
mkdtempAny(existing) == DirNames

\* mkdtemp creates a directory under a name no existing directory has.
mkdtemp(existing) == DirNames \ existing

\* do_it calls generate(tape); generate enters `with TemporaryDirectory()`
\* and starts the recorder: run(["vhs", tape_path], env={"SLUMBER_DB": temp_dir}).
StartRecorder(t) ==
    /\ threads[t] = "started"
    /\ \E d \in mkdtemp(dirs) :
        /\ tdir' = [tdir EXCEPT ![t] = d]
        /\ dirs' = dirs \cup {d}
        /\ invocations' =
               invocations \cup
                   {[task |-> t, tape |-> ClosureTape(t, tape), db |-> d,
                     env |-> ChildEnv(environ, [k \in {"SLUMBER_DB"} |-> DirPath(d)])]}
        /\ environ' = EnvironAfterRun(environ, [k \in {"SLUMBER_DB"} |-> DirPath(d)])
    /\ ttape' = [ttape EXCEPT ![t] = ClosureTape(t, tape)]
    /\ threads' = [threads EXCEPT ![t] = "vhs"]
    /\ UNCHANGED <<check_flag, names, script, parsed, pc, result, tapes, tape, trc, joined,
                   gifs, doc, repoVars, chkVars, seqVars, launchVars>>

\* The directory is removed only when the block ends without an exception.
CleanupOnSuccess(existing, d, rc) == IF rc = 0 THEN existing \ {d} ELSE existing

\* TemporaryDirectory.__exit__: the directory is removed, whether the block
\* ended normally or with an exception.
Cleanup(existing, d, rc) == existing \ {d}

\* The exit status is not looked at (subprocess.call).
AfterRunAnyStatus(rc) == "cleaned"

\* check_output raises CalledProcessError for a nonzero status: generate does
\* not return and do_it appends nothing.
AfterRun(rc) == IF rc = 0 THEN "cleaned" ELSE "dead"

\* The recorder exits: with any status for a tape it could read, with a
\* failure for a tape file that does not exist. The with block is left:
\* check_output raised CalledProcessError for a nonzero status, which ends
\* the thread; otherwise generate goes on.
RecorderExit(t) ==
    /\ threads[t] = "vhs"
    /\ \E rc \in (IF Exists(ttape[t]) THEN {0, 1} ELSE {1}) :
        /\ trc' = [trc EXCEPT ![t] = rc]
        /\ dirs' = Cleanup(dirs, tdir[t], rc)
        /\ threads' = [threads EXCEPT ![t] = AfterRun(rc)]
    /\ UNCHANGED <<argVars, pc, result, tapes, tape, ttape, tdir, joined, gifs, doc,
                   invocations, repoVars, chkVars>>

\* return get_gif_path(tape_path), and gifs.append(gif) in do_it; an exception
\* of get_gif_path ends the thread without an append.
ReturnGif(t) ==
    /\ threads[t] = "cleaned"
    /\ LET r == get_gif_path(ttape[t])
       IN  gifs' = IF r.ok THEN Append(gifs, r.path) ELSE gifs
    /\ threads' = [threads EXCEPT ![t] = "dead"]
    /\ UNCHANGED <<argVars, pc, result, tapes, tape, ttape, tdir, trc, joined, dirs, doc,
                   invocations, repoVars, chkVars>>

Thread(t) ==
    \/ StartRecorder(t)
    \/ RecorderExit(t)
    \/ ReturnGif(t)

\* -------------------------------------------------------------- check_all

\* check_all up to the loop: the default tape list and the HEAD query, whose
\* failure ends the run.
CheckAllStart ==
    /\ pc = "check_all"
    /\ \E all \in get_tapes : tapes' = IF tapes = <<>> THEN all ELSE tapes
    /\ LET r == GitRevParseHead(head)
       IN  IF r.rc = 0
           THEN /\ latest_commit' = decodeStrip(r.out)
                /\ pc' = "check_loop"
                /\ result' = result
           ELSE /\ latest_commit' = latest_commit
                /\ pc' = "done"
                /\ result' = CalledProcessError
    /\ head_read' = head
    /\ rev_parse_calls' = rev_parse_calls + 1
    /\ UNCHANGED <<argVars, genVars, doc, repoVars, failed, verdicts, ci>>

\* Any artifact with a history passes.
checkAnyHistory(commit, gif_out) == decodeStrip(gif_out.out) /= <<>>

\* The artifact is compared with the HEAD of the moment of the comparison.
checkCurrentHead(commit, gif_out) ==
    decodeStrip(GitRevParseHead(head).out) = decodeStrip(gif_out.out)

\* check(): the comparison of the two stripped outputs.
check(commit, gif_out) == commit = decodeStrip(gif_out.out)

\* Only the latest failure is kept.
CollectLast(list, gif, good) == IF good THEN list ELSE <<gif>>

\* if not good: failed.append(gif)
CollectFailed(list, gif, good) == IF good THEN list ELSE Append(list, gif)

\* One iteration of the loop of check_all.
CheckTape ==
    /\ pc = "check_loop"
    /\ ci <= Len(tapes)
    /\ LET r == get_gif_path(tapes[ci])
       IN  IF ~r.ok
           THEN /\ pc' = "done"
                /\ result' = r.err
                /\ UNCHANGED <<failed, verdicts, ci>>
           ELSE LET good == check(latest_commit, GitLogLast(lastCommit, r.path))
                IN  /\ failed' = CollectFailed(failed, r.path, good)
                    /\ verdicts' = Append(verdicts,
                           [tape |-> tapes[ci], gif |-> r.path, good |-> good,
                            head |-> head_read, last |-> lastCommit[r.path],
                            now |-> head])
                    /\ ci' = ci + 1
                    /\ UNCHANGED <<pc, result>>
    /\ UNCHANGED <<argVars, tapes, genVars, doc, repoVars, latest_commit, head_read,
                   rev_parse_calls>>

\* After the loop: the exception listing the failed gifs, or the good news.
CheckAllEnd ==
    /\ pc = "check_loop"
    /\ ci > Len(tapes)
    /\ pc' = "done"
    /\ result' = IF failed /= <<>> THEN Outdated ELSE "ok"
    /\ UNCHANGED <<argVars, tapes, genVars, doc, repoVars, chkVars>>

\* Someone commits while check_all runs: HEAD moves to a new commit, which
\* touches some of the artifacts.
Commit ==
    /\ check_flag
    /\ pc \in {"check_all", "check_loop"}
    /\ head < MaxCommit
    /\ head' = head + 1
    /\ \E touched \in SUBSET GifPaths :
        lastCommit' = [g \in GifPaths |-> IF g \in touched THEN head + 1 ELSE lastCommit[g]]
    /\ UNCHANGED <<argVars, pc, result, tapes, genVars, doc, chkVars>>

\* --------------------------------------------------------- specification

Next ==
    \/ Main
    \/ GenerateAllStart
    \/ Launch
    \/ LaunchDone
    \/ Join
    \/ WriteDoc
    \/ \E t \in 1..Len(threads) : Thread(t)
    \/ CheckAllStart
    \/ CheckTape
    \/ CheckAllEnd
    \/ Commit

Spec == Init /\ [][Next]_vars

\* ------------------------------------------------- the parser on its own

LowerLine == <<"o", "u", "t", "p", "u", "t", " ", "\"">> \o GetGif \o <<"\"", "\n">>
TrailingSpaceLine == OutputPrefix \o GetGif \o <<"\"", " ", "\n">>
LastLineNoNewline == OutputPrefix \o StaleGif \o <<"\"">>
\* A path with a space and a quote in it: Output "s "g"
SpecialGif == <<"s", " ", "\"", "g">>

\* The lines the scripts of SpecParse are made of: four that declare an
\* output (one without a newline, as the last line of a file may be) and
\* three that do not.
ScriptLines ==
    {OutputLine(GetGif), OutputLine(PostGif), LastLineNoNewline, OutputLine(SpecialGif),
     SetLine, LowerLine, TrailingSpaceLine}

InitParse ==
    /\ script \in SeqUpTo(ScriptLines, MaxLines)
    /\ parsed = NotParsed
    /\ check_flag = FALSE
    /\ names = <<>>
    /\ pc = "get_gif_path"
    /\ result = "running"
    /\ tapes = <<>>
    /\ tape = NoTape
    /\ threads = <<>>
    /\ ttape = <<>>
    /\ tdir = <<>>
    /\ trc = <<>>
    /\ joined = 0
    /\ dirs = {}
    /\ gifs = <<>>
    /\ doc = PriorDoc
    /\ invocations = {}
    /\ head = 0
    /\ lastCommit = [g \in GifPaths |-> 0]
    /\ latest_commit = <<>>
    /\ failed = <<>>
    /\ verdicts = <<>>
    /\ ci = 1
    /\ head_read = 0
    /\ environ = [k \in {"PATH"} |-> BinPath]
    /\ rev_parse_calls = 0
    /\ SeqIdle
    /\ LaunchIdle

\* get_gif_path on an open file holding `script`.
ParseScript ==
    /\ pc = "get_gif_path"
    /\ parsed' = Scan(script)
    /\ pc' = "done"
    /\ UNCHANGED <<check_flag, names, script, result, tapes, genVars, doc, repoVars, chkVars,
                   environ, seqVars, launchVars>>

NextParse == ParseScript

SpecParse == InitParse /\ [][NextParse]_vars

\* ------------------------------------------- gifs.py, the sequential variant

\* The variables of mise-tasks/gifs.py that gifs.py has no use for.
ThreadedIdle ==
    /\ check_flag = FALSE
    /\ script = <<>>
    /\ parsed = NotParsed
    /\ tape = NoTape
    /\ threads = <<>>
    /\ ttape = <<>>
    /\ tdir = <<>>
    /\ trc = <<>>
    /\ joined = 0
    /\ dirs = {}
    /\ gifs = <<>>
    /\ doc = PriorDoc
    /\ invocations = {}
    /\ head = 0
    /\ lastCommit = [g \in GifPaths |-> 0]
    /\ latest_commit = <<>>
    /\ failed = <<>>
    /\ verdicts = <<>>
    /\ ci = 1
    /\ head_read = 0
    /\ rev_parse_calls = 0

threadedVars ==
    <<check_flag, script, parsed, genVars, doc, repoVars, chkVars, environ, launchVars>>

InitSeq ==
    /\ names \in SeqUpTo(TapeNames, MaxTapes)
    /\ pc = "seq_main"
    /\ result = "running"
    /\ tapes = <<>>
    /\ data_dir \in BOOLEAN
    /\ seq_i = 1
    /\ seq_running = 0
    /\ seq_log = <<>>
    /\ ThreadedIdle
    /\ environ = [k \in {"PATH"} |-> BinPath]
    /\ LaunchIdle

\* main() of gifs.py, generate mode.
SeqMain ==
    /\ pc = "seq_main"
    /\ tapes' = [i \in 1..Len(names) |-> get_tape_path(names[i])]
    /\ pc' = "seq_generate_all"
    /\ UNCHANGED <<names, result, seqVars, threadedVars>>

\* generate_all of gifs.py up to its loop.
SeqGenerateAllStart ==
    /\ pc = "seq_generate_all"
    /\ \E all \in get_tapes, build_rc \in {0, 101} :
        /\ tapes' = IF tapes = <<>> THEN all ELSE tapes
        /\ IF build_rc = 0
           THEN pc' = "seq_loop" /\ result' = result
           ELSE pc' = "done" /\ result' = CalledProcessError
    /\ UNCHANGED <<names, seqVars, threadedVars>>

\* Errors are ignored: a missing directory is no failure.
rmtreeIgnoreErrors(exists) == [ok |-> TRUE, exists |-> FALSE]

\* shutil.rmtree("data/"): removes the directory, raises when there is none.
rmtree(exists) == [ok |-> exists, exists |-> FALSE]

\* generate(tape): data/ is deleted and the recorder is started.
SeqGenerate ==
    /\ pc = "seq_loop"
    /\ seq_i <= Len(tapes)
    /\ LET r == rmtree(data_dir)
       IN  /\ data_dir' = r.exists
           /\ IF r.ok
              THEN /\ seq_log' = Append(seq_log,
                          [tape |-> tapes[seq_i], had_data |-> data_dir, data |-> r.exists])
                   /\ seq_running' = seq_running + 1
                   /\ pc' = "seq_vhs"
                   /\ result' = result
              ELSE /\ pc' = "done"
                   /\ result' = FileNotFoundError
                   /\ UNCHANGED <<seq_log, seq_running>>
    /\ UNCHANGED <<names, tapes, seq_i, threadedVars>>

\* The recorder exits, having created data/ or not; check_output raises for a
\* nonzero status, which ends generate_all.
SeqRecorderExit ==
    /\ pc = "seq_vhs"
    /\ seq_running' = seq_running - 1
    /\ \E rc \in (IF Exists(tapes[seq_i]) THEN {0, 1} ELSE {1}), created \in BOOLEAN :
        /\ data_dir' = created
        /\ IF rc = 0
           THEN pc' = "seq_loop" /\ seq_i' = seq_i + 1 /\ result' = result
           ELSE pc' = "done" /\ seq_i' = seq_i /\ result' = CalledProcessError
    /\ UNCHANGED <<names, tapes, seq_log, threadedVars>>

\* The loop of generate_all is over.
SeqGenerateAllEnd ==
    /\ pc = "seq_loop"
    /\ seq_i > Len(tapes)
    /\ pc' = "done"
    /\ result' = "ok"
    /\ UNCHANGED <<names, tapes, seqVars, threadedVars>>

NextSeq ==
    \/ SeqMain
    \/ SeqGenerateAllStart
    \/ SeqGenerate
    \/ SeqRecorderExit
    \/ SeqGenerateAllEnd

SpecSeq == InitSeq /\ [][NextSeq]_vars

\* ------------------------------------------------- x.py and tui.py

\* The launchers: the cli and tui subcommands of x.py, and tui.py.
Launchers == {"x.py cli", "x.py tui", "tui.py"}

RUSTFLAGS_TRACING == "--cfg=tokio_unstable"

\* What the caller's environment may hold: RUST_LOG and RUSTFLAGS, each set
\* or not, next to PATH.
LaunchEnvirons ==
    {[k \in {"PATH"} \cup ks |->
        CASE k = "PATH" -> BinPath
          [] k = "RUST_LOG" -> <<"", "warn">>
          [] k = "RUSTFLAGS" -> "-Cdebuginfo=0"] : ks \in SUBSET {"RUST_LOG", "RUSTFLAGS"}}

\* add_argument("--log", "-l", default="DEBUG")
LogLevel(opt) == IF opt = NotGiven THEN "DEBUG" ELSE opt

\* f"slumber={log}"
RustLog(log) == <<"slumber=", log>>

\* {"RUST_LOG": f"slumber={log}", "RUST_BACKTRACE": "1", **os.environ}: a later
\* entry of a dict display replaces an earlier one, so os.environ wins.
env(log) ==
    environ @@ [k \in {"RUST_LOG", "RUST_BACKTRACE"} |->
                   IF k = "RUST_LOG" THEN RustLog(log) ELSE "1"]

\* "--cfg=tokio_unstable" if tracing else ""
RustFlags(tracing) == IF tracing THEN RUSTFLAGS_TRACING ELSE ""

\* The env= argument of subprocess.run in cli, in tui and in tui.py's main.
LauncherEnv(which, log, tracing) ==
    CASE which = "x.py cli" -> env(log)
      [] which = "x.py tui" -> env(log) @@ [k \in {"RUSTFLAGS"} |-> RustFlags(tracing)]
      [] which = "tui.py" ->
            environ @@ [k \in {"RUST_LOG", "RUST_BACKTRACE", "RUSTFLAGS"} |->
                           CASE k = "RUST_LOG" -> RustLog(log)
                             [] k = "RUST_BACKTRACE" -> "1"
                             [] k = "RUSTFLAGS" -> RustFlags(tracing)]

InitLaunch ==
    /\ launcher \in Launchers
    /\ opt_log \in {NotGiven, "TRACE", "INFO"}
    /\ opt_tracing \in (IF launcher = "x.py cli" THEN {FALSE} ELSE BOOLEAN)
    /\ environ \in LaunchEnvirons
    /\ child_env = NoEnv
    /\ exit_code = NoExit
    /\ names = <<>>
    /\ tapes = <<>>
    /\ pc = "launcher"
    /\ result = "running"
    /\ ThreadedIdle
    /\ SeqIdle

launchFrame == <<check_flag, names, tapes, script, parsed, genVars, doc, repoVars, chkVars,
                 seqVars, environ, launcher, opt_log, opt_tracing>>

\* subprocess.run(command, env=...) is called.
RunChild ==
    /\ pc = "launcher"
    /\ child_env' = LauncherEnv(launcher, LogLevel(opt_log), opt_tracing)
    /\ pc' = "child"
    /\ UNCHANGED <<result, exit_code, launchFrame>>

\* The child returns: sys.exit(result.returncode).
ChildReturns ==
    /\ pc = "child"
    /\ \E rc \in {0, 1} : exit_code' = rc
    /\ result' = "returned"
    /\ pc' = "done"
    /\ UNCHANGED <<child_env, launchFrame>>

\* Ctrl-C while the child runs: tui and tui.py catch KeyboardInterrupt and
\* exit with 0, cli does not catch it and Python ends the process as killed
\* by SIGINT (status 130 to the shell).
Interrupted ==
    /\ pc = "child"
    /\ exit_code' = IF launcher = "x.py cli" THEN 130 ELSE 0
    /\ result' = "KeyboardInterrupt"
    /\ pc' = "done"
    /\ UNCHANGED <<child_env, launchFrame>>

NextLaunch ==
    \/ RunChild
    \/ ChildReturns
    \/ Interrupted

SpecLaunch == InitLaunch /\ [][NextLaunch]_vars

\* ================================================================ claims

Range(s) == {s[i] : i \in 1..Len(s)}
Distinct(s) == \A i, j \in 1..Len(s) : i /= j => s[i] /= s[j]

\* generate_all has launched its threads and joined them all.
Joined == ~check_flag /\ pc \in {"write", "done"} /\ result /= CalledProcessError
\* generate_all has returned normally.
Returned == ~check_flag /\ pc = "done" /\ result = "ok"

\* C1: for distinct input scripts, once all threads are joined the recorder
\* has been invoked exactly once for each input script, by the task launched
\* for that script.
C1_OneRenderPerScript ==
    (Joined /\ Distinct(tapes)) =>
        \A i \in 1..Len(tapes) :
            {v \in invocations : v.tape = tapes[i]} = {v \in invocations : v.task = i}
            /\ Cardinality({v \in invocations : v.tape = tapes[i]}) = 1

\* The path a block of the review document shows: the text before its first
\* newline.
RECURSIVE FirstLine(_)
FirstLine(b) ==
    IF b = <<>> \/ Head(b) = "\n" THEN <<>> ELSE <<Head(b)>> \o FirstLine(Tail(b))

DocGifs == [i \in 1..Len(doc) |-> FirstLine(doc[i])]

\* Every render succeeded, rendered the script it was launched for, and that
\* script declares an output.
CleanRun ==
    /\ Returned
    /\ \A t \in 1..Len(threads) :
        trc[t] = 0 /\ ttape[t] = tapes[t] /\ get_gif_path(tapes[t]).ok

DeclaredOutputs == [i \in 1..Len(tapes) |-> get_gif_path(tapes[i]).path]

\* C2 (as claimed): the artifacts written to the review document are in the
\* order of the input scripts, entry i being the declared output of script i.
C2_InputOrder == CleanRun => DocGifs = DeclaredOutputs

\* C2 (amended): the artifacts written to the review document are the ones the
\* threads collected, in ascending order of their paths, whatever the order of
\* the input and the order in which the renders completed.
C2_SortedOrder ==
    Returned =>
        /\ \A i \in 1..Len(doc) : doc[i] = Block(DocGifs[i])
        /\ \A i, j \in 1..Len(doc) : i < j => StrLeq(DocGifs[i], DocGifs[j])
        /\ Len(doc) = Len(gifs)
        /\ \A g \in Range(gifs) :
            Cardinality({i \in 1..Len(doc) : DocGifs[i] = g})
                = Cardinality({i \in 1..Len(gifs) : gifs[i] = g})

\* C2 witness: two renders of a batch given in descending order completed in
\* descending order of their paths, and the document was written.
C2_Witness ==
    /\ Returned
    /\ Len(gifs) = 2
    /\ CleanRun
    /\ ~StrLeq(gifs[1], gifs[2])
    /\ ~StrLeq(DeclaredOutputs[1], DeclaredOutputs[2])

\* C3: when the recorder exited non-zero for some script of the batch,
\* generate_all does not return normally.
C3_FailureSurfaces ==
    (~check_flag /\ pc = "done" /\ \E t \in 1..Len(threads) : trc[t] = 1) => result /= "ok"

\* C4: a render that has left its with block no longer has its scratch
\* directory on disk (a directory of that name exists only if a render still
\* running was given the name afterwards), and once generate_all has finished
\* no scratch directory exists, whatever the recorder's exit statuses were.
C4_ScratchRemoved ==
    /\ \A t \in 1..Len(threads) :
        (threads[t] \in {"cleaned", "dead"} /\ tdir[t] \in dirs) =>
            \E u \in 1..Len(threads) : u /= t /\ threads[u] = "vhs" /\ tdir[u] = tdir[t]
    /\ (~check_flag /\ pc \in {"write", "done"}) => dirs = {}

\* C4 witness: generate_all has finished a batch in which one recorder
\* invocation succeeded and another failed.
C4_Witness ==
    /\ ~check_flag
    /\ pc = "done"
    /\ \E t, u \in 1..Len(threads) : trc[t] = 0 /\ trc[u] = 1

\* C5: two recorder invocations running at the same time never have the same
\* scratch directory, and the directory of a running invocation exists.
C5_ScratchPrivate ==
    \A t, u \in 1..Len(threads) :
        (t /= u /\ threads[t] = "vhs" /\ threads[u] = "vhs") =>
            (tdir[t] /= tdir[u] /\ tdir[t] \in dirs /\ tdir[u] \in dirs)

\* C5 witness: two recorder invocations overlap in time.
C5_Witness ==
    \E t, u \in 1..Len(threads) : t /= u /\ threads[t] = "vhs" /\ threads[u] = "vhs"

\* C6: when a script of the batch does not exist or declares no output, no
\* thread is started, the recorder is never invoked and generate_all fails.
C6_ParseErrorsFirst ==
    (~check_flag /\ pc \in {"launch", "join", "write", "done"}
        /\ \E i \in 1..Len(tapes) : ~get_gif_path(tapes[i]).ok) =>
            /\ threads = <<>>
            /\ invocations = {}
            /\ pc = "done" => result /= "ok"

\* C7: a verdict passes exactly if the last commit touching the artifact is
\* the commit the HEAD query reported; an artifact without history fails.
C7_CheckVerdict ==
    \A i \in 1..Len(verdicts) :
        /\ verdicts[i].good <=> (verdicts[i].last = verdicts[i].head)
        /\ verdicts[i].last = 0 => ~verdicts[i].good
        /\ verdicts[i].head /= 0

\* C7 witness: one artifact passed, another one, without history, failed.
C7_Witness ==
    \E i, j \in 1..Len(verdicts) :
        /\ verdicts[i].good
        /\ verdicts[j].last = 0
        /\ ~verdicts[j].good

RECURSIVE FailingGifs(_)
FailingGifs(vs) ==
    IF vs = <<>> THEN <<>>
    ELSE (IF Head(vs).good THEN <<>> ELSE <<Head(vs).gif>>) \o FailingGifs(Tail(vs))

\* check_all has gone through its whole loop.
AllEvaluated ==
    /\ Len(verdicts) = Len(tapes)
    /\ \A i \in 1..Len(tapes) : verdicts[i].tape = tapes[i]
    /\ failed = FailingGifs(verdicts)
    /\ result = (IF \E i \in 1..Len(verdicts) : ~verdicts[i].good THEN Outdated ELSE "ok")

\* C8 (as claimed): check_all, once it has read HEAD, evaluates every artifact
\* of the batch and ends in failure exactly if a verdict failed, reporting
\* exactly the failing ones.
C8_AllEvaluated ==
    (check_flag /\ pc = "done" /\ head_read /= 0) =>
        /\ \A i \in 1..Len(tapes) :
            get_gif_path(tapes[i]).ok => \E k \in 1..Len(verdicts) : verdicts[k].tape = tapes[i]
        /\ result /= "ok" <=> \E k \in 1..Len(verdicts) : ~verdicts[k].good
        /\ failed = FailingGifs(verdicts)

\* The first script of the batch that get_gif_path rejects, 0 if none.
FirstRejected ==
    IF \E i \in 1..Len(tapes) : ~get_gif_path(tapes[i]).ok
    THEN CHOOSE i \in 1..Len(tapes) :
            /\ ~get_gif_path(tapes[i]).ok
            /\ \A j \in 1..(i - 1) : get_gif_path(tapes[j]).ok
    ELSE 0

\* C8 (amended): when the HEAD query succeeds and every script of the batch
\* declares an output, check_all evaluates every artifact, also after a
\* failed verdict, ends in failure exactly if a verdict failed and reports
\* exactly the failing artifacts. Otherwise it ends with the error of the
\* HEAD query, or of the first script without a readable output directive,
\* and the artifacts after that script are not evaluated.
C8_AllEvaluatedUnlessError ==
    (check_flag /\ pc = "done") =>
        IF head_read = 0 THEN result = CalledProcessError /\ verdicts = <<>>
        ELSE IF FirstRejected /= 0
             THEN /\ result = get_gif_path(tapes[FirstRejected]).err
                  /\ Len(verdicts) = FirstRejected - 1
                  /\ failed = FailingGifs(verdicts)
             ELSE AllEvaluated

\* C8 witness: the first verdict failed, a later artifact was still evaluated
\* and passed, and check_all ended in failure.
C8_Witness ==
    /\ check_flag
    /\ pc = "done"
    /\ result = Outdated
    /\ Len(verdicts) >= 2
    /\ ~verdicts[1].good
    /\ verdicts[2].good

\* The lines of ScriptLines that are output directives, and their paths.
DirectivePath ==
    (OutputLine(GetGif) :> GetGif) @@ (OutputLine(PostGif) :> PostGif)
        @@ (LastLineNoNewline :> StaleGif) @@ (OutputLine(SpecialGif) :> SpecialGif)

Directives(s) == {i \in 1..Len(s) : s[i] \in DOMAIN DirectivePath}

\* C9 (as claimed): a path is returned exactly for a script with one
\* directive line; zero or several directive lines are rejected.
C9_ExactlyOneDirective ==
    pc = "done" => (parsed.ok <=> Cardinality(Directives(script)) = 1)

\* C9 (amended): a script without a directive line is rejected with
\* ValueError, never given a default path; a script with one or more directive
\* lines yields the path of its first directive line.
C9_FirstDirectiveOrError ==
    pc = "done" =>
        IF Directives(script) = {}
        THEN parsed = [ok |-> FALSE, err |-> ValueError]
        ELSE LET first == CHOOSE i \in Directives(script) : \A j \in Directives(script) : i <= j
             IN  parsed = [ok |-> TRUE, path |-> DirectivePath[script[first]]]

\* C9 witness: a script with two directive lines of different paths was
\* scanned and a path was returned.
C9_Witness ==
    /\ pc = "done"
    /\ parsed.ok
    /\ \E i, j \in Directives(script) : i < j /\ script[i] /= script[j]

\* C10: after a run in which every recorder invocation succeeded, for distinct
\* scripts that all declare an output, the review document holds exactly one
\* block per input script, showing its declared output, and nothing else.
C10_DocExactlyInputs ==
    (Returned /\ Distinct(tapes)
        /\ \A t \in 1..Len(threads) : trc[t] = 0
        /\ \A i \in 1..Len(tapes) : get_gif_path(tapes[i]).ok) =>
            /\ Len(doc) = Len(tapes)
            /\ \A i \in 1..Len(tapes) :
                Cardinality({k \in 1..Len(doc) : doc[k] = Block(DeclaredOutputs[i])}) = 1

\* C11: in check mode the recorder is never invoked, no thread is started, no
\* scratch directory is allocated and the review document stays as it was.
C11_CheckRendersNothing ==
    check_flag =>
        /\ invocations = {}
        /\ threads = <<>>
        /\ dirs = {}
        /\ gifs = <<>>
        /\ doc = PriorDoc

\* C11 witness: check_all has gone through a batch with a verdict.
C11_Witness == check_flag /\ pc = "done" /\ Len(verdicts) >= 1 /\ doc = PriorDoc

\* The artifacts of the scripts whose task's recorder exited with 0, in input
\* order: what the threads collect when each renders the script it was
\* launched for.
RECURSIVE OwnGifs(_)
OwnGifs(n) ==
    IF n = 0 THEN <<>>
    ELSE OwnGifs(n - 1) \o (IF trc[n] = 0 THEN <<get_gif_path(tapes[n]).path>> ELSE <<>>)

\* The scripts of the batch are distinct and each declares an output.
SoundBatch == Distinct(tapes) /\ \A i \in 1..Len(tapes) : get_gif_path(tapes[i]).ok

\* C12: for a given input sequence and given exit statuses of the tasks'
\* recorder invocations, the review document is the same in every run: it is
\* the document of the run in which every task renders its own script.
C12_Reproducible ==
    (Returned /\ SoundBatch) => doc = Blocks(sorted(OwnGifs(Len(tapes))))

\* C12 reference run: for two scripts whose recorder invocations both exit
\* with 0, a run in which every task rendered its own script wrote that
\* document.
C12_Witness ==
    /\ Returned
    /\ SoundBatch
    /\ Len(tapes) = 2
    /\ trc = <<0, 0>>
    /\ ttape = tapes
    /\ doc = Blocks(sorted(OwnGifs(2)))

\* C13: once generate_all is past its join loop, and so before it writes the
\* review document, one thread was launched per script and each of them,
\* whatever the exit status of the others' recorder, has run its recorder
\* invocation to its end, has released its scratch directory and has ended.
C13_SiblingsFinish ==
    /\ Joined =>
        /\ Len(threads) = Len(tapes)
        /\ \A t \in 1..Len(threads) :
            /\ threads[t] = "dead"
            /\ trc[t] \in {0, 1}
            /\ \E v \in invocations : v.task = t
            /\ tdir[t] \notin dirs
    /\ (~check_flag /\ doc /= PriorDoc) => pc = "done"

\* C13 witness: the first task's recorder failed, the second task's succeeded
\* and its artifact was collected and written.
C13_Witness ==
    /\ Returned
    /\ Len(threads) = 2
    /\ trc = <<1, 0>>
    /\ Len(doc) = 1

\* C14: the process environment never changes, and every recorder invocation
\* gets an environment of its own: the process environment with SLUMBER_DB set
\* to the scratch directory of its own job, whatever SLUMBER_DB was before.
C14_EnvironmentPrivate ==
    /\ [](\A v \in invocations :
            /\ DOMAIN v.env = DOMAIN environ \cup {"SLUMBER_DB"}
            /\ v.env["SLUMBER_DB"] = DirPath(tdir[v.task])
            /\ \A k \in DOMAIN environ \ {"SLUMBER_DB"} : v.env[k] = environ[k])
    /\ [][environ' = environ]_vars

\* C14 witness: two recorder invocations are running at the same time in a
\* process whose environment sets SLUMBER_DB.
C14_Witness ==
    /\ "SLUMBER_DB" \in DOMAIN environ
    /\ \E v, w \in invocations :
        /\ v.task /= w.task
        /\ threads[v.task] = "vhs"
        /\ threads[w.task] = "vhs"
        /\ v.env["SLUMBER_DB"] /= w.env["SLUMBER_DB"]

\* C15: for a script with exactly one directive line, wherever it stands
\* among the other lines, the scan returns the path written in that line,
\* character for character.
C15_SingleDirectiveVerbatim ==
    (pc = "done" /\ Cardinality(Directives(script)) = 1) =>
        \A i \in Directives(script) :
            /\ parsed.ok
            /\ parsed.path = DirectivePath[script[i]]
            /\ OutputLine(parsed.path) = script[i] \/ OutputLine(parsed.path) = script[i] \o <<"\n">>

\* C15 witness: the one directive line, with a space and a quote in its path,
\* stands between two lines that are no directives, and its path was returned.
C15_Witness ==
    /\ pc = "done"
    /\ Len(script) = 3
    /\ Directives(script) = {2}
    /\ script[1] = LowerLine
    /\ script[3] = TrailingSpaceLine
    /\ parsed = [ok |-> TRUE, path |-> SpecialGif]

\* The tasks whose recorder invocation exited with 0 for a script that
\* declares the output g.
Rendered(g) ==
    {t \in 1..Len(threads) :
        /\ trc[t] = 0
        /\ \E v \in invocations : v.task = t /\ v.tape = ttape[t]
        /\ get_gif_path(ttape[t]) = [ok |-> TRUE, path |-> g]}

\* C16: the review document lists an artifact once for every recorder
\* invocation of this run that exited with 0 for a script declaring it, and
\* lists nothing else: no artifact of a failed render only, none of a script
\* that was not rendered, none of an earlier run.
C16_OnlyRenderedListed ==
    Returned =>
        \A k \in 1..Len(doc) :
            /\ doc[k] = Block(DocGifs[k])
            /\ Cardinality({j \in 1..Len(doc) : doc[j] = doc[k]})
                   = Cardinality(Rendered(DocGifs[k]))
            /\ Rendered(DocGifs[k]) /= {}

\* C16 witness: of two scripts the first was rendered with success and is
\* listed, the second one's render failed and its artifact is not listed.
C16_Witness ==
    /\ Returned
    /\ SoundBatch
    /\ Len(tapes) = 2
    /\ ttape = tapes
    /\ trc = <<0, 1>>
    /\ DocGifs = <<get_gif_path(tapes[1]).path>>

\* C17: check_all queries HEAD once, before the first verdict, and every
\* verdict of the batch passes exactly if the artifact's last commit is the
\* commit that query reported, also when HEAD has moved since.
C17_OneHeadForAll ==
    /\ rev_parse_calls <= 1
    /\ verdicts /= <<>> => (rev_parse_calls = 1 /\ latest_commit = Sha(head_read))
    /\ \A i \in 1..Len(verdicts) :
        /\ verdicts[i].head = head_read
        /\ verdicts[i].good <=> (verdicts[i].last = head_read)
        /\ verdicts[i].now >= head_read

\* C17 witness: HEAD moved during the batch; an artifact last touched by the
\* commit read at the start passed, and an artifact touched by the new HEAD
\* failed.
C17_Witness ==
    \E i, j \in 1..Len(verdicts) :
        /\ verdicts[i].now /= head_read
        /\ verdicts[i].good
        /\ verdicts[j].last = verdicts[j].now
        /\ verdicts[j].now /= head_read
        /\ ~verdicts[j].good

\* C18: in gifs.py the recorder runs for the scripts one at a time, in input
\* order; data/ existed and was deleted right before every run, so every run
\* starts without it; when the deletion fails, that script and the later ones
\* are not rendered and generate_all ends with the error.
C18_SequentialFreshData ==
    /\ seq_running <= 1
    /\ seq_running = 1 <=> pc = "seq_vhs"
    /\ Len(seq_log) <= Len(tapes)
    /\ \A k \in 1..Len(seq_log) :
        /\ seq_log[k].tape = tapes[k]
        /\ seq_log[k].had_data
        /\ ~seq_log[k].data
    /\ (pc = "done" /\ result = FileNotFoundError) =>
        (Len(seq_log) = seq_i - 1 /\ seq_i <= Len(tapes) /\ ~data_dir)
    /\ (pc = "done" /\ result = "ok") => Len(seq_log) = Len(tapes)

\* C18 witness: the first script was rendered, the recorder left no data/
\* behind, and the deletion failed before the second script, which was not
\* rendered.
C18_Witness ==
    /\ pc = "done"
    /\ result = FileNotFoundError
    /\ Len(tapes) >= 2
    /\ Len(seq_log) = 1

\* C19: whatever the caller's environment holds, the child runs with RUST_LOG
\* set to slumber=<level>, <level> being --log or DEBUG, and in tui mode with
\* --tracing with RUSTFLAGS set to --cfg=tokio_unstable; the launcher exits
\* with the child's status, or with 0 when interrupted from the keyboard.
C19_LauncherEnvironment ==
    /\ pc \in {"child", "done"} =>
        /\ child_env["RUST_LOG"] = RustLog(IF opt_log = NotGiven THEN "DEBUG" ELSE opt_log)
        /\ (launcher /= "x.py cli" /\ opt_tracing) => child_env["RUSTFLAGS"] = RUSTFLAGS_TRACING
    /\ (pc = "done" /\ result = "returned") => exit_code \in {0, 1}
    /\ (pc = "done" /\ result = "KeyboardInterrupt") => exit_code = 0

====
